---- MODULE Spec2Model ----
(***************************************************************************)
(* Model of miner_monitor.py: the MinerAPI client (constructor,            *)
(* check_auth, get_summary), the report renderer parse_miner_stats and     *)
(* the entry point main.                                                   *)
(*                                                                         *)
(* JSON documents and Python values are tagged records, so that a value    *)
(* of the wrong type at some position is representable and the Python      *)
(* exception it causes is part of the model.                               *)
(***************************************************************************)
EXTENDS Integers, Sequences, FiniteSets, TLC

VARIABLES
  pc,            \* position of the caller (main, or a direct user of MinerAPI)
  environ,       \* os.environ.get('MINER_API_KEY'): None when unset
  arg,           \* the api_key argument the constructor was called with
  api_key,       \* self.api_key
  headers,       \* self.headers
  requests,      \* the requests sent so far, in order
  responses,     \* the outcome of each request
  ret,           \* the value the last check_auth / get_summary call returned
  auth_status,   \* main's auth_status
  summary_data,  \* main's summary_data
  data,          \* the argument of parse_miner_stats
  stdout,        \* the lines printed so far
  files,         \* the files written so far
  exc,           \* an exception left the last call uncaught
  clock          \* the last reading of datetime.now()

vars == <<pc, environ, arg, api_key, headers, requests, responses, ret,
          auth_status, summary_data, data, stdout, files, exc, clock>>

(***************************************************************************)
(* Bounds of the model.                                                    *)
(***************************************************************************)
MaxPools == 2
MaxFans == 2
MaxChains == 2
MaxClock == 1
MaxCalls == 2

(***************************************************************************)
(* Python / JSON values.                                                   *)
(***************************************************************************)
None == [t |-> "null"]
Num(n) == [t |-> "num", v |-> n]
Str(s) == [t |-> "str", v |-> s]
Obj(f) == [t |-> "obj", v |-> f]
List(s) == [t |-> "list", v |-> s]
EmptyDict == Obj(<<>>)
EmptyList == List(<<>>)

\* The pseudo-value of an expression whose evaluation raised.
Raise == [t |-> "raise"]

\* bool(x)
Truthy(x) ==
  CASE x.t = "null" -> FALSE
    [] x.t = "num" -> x.v # 0
    [] x.t = "str" -> x.v # ""
    [] x.t = "obj" -> DOMAIN x.v # {}
    [] x.t = "list" -> Len(x.v) > 0

\* `k in x` is defined for containers only (TypeError otherwise).  For a
\* string it is the substring test; the strings sampled below contain k only
\* when they equal it.
HasContains(x) == x.t \in {"obj", "list", "str"}

Contains(x, k) ==
  CASE x.t = "obj" -> k \in DOMAIN x.v
    [] x.t = "list" -> \E i \in 1..Len(x.v) : x.v[i] = Str(k)
    [] x.t = "str" -> x.v = k

\* x[k] with a string key: defined for dicts that hold the key.
Subscript(x, k) ==
  IF x.t = "obj" /\ k \in DOMAIN x.v THEN x.v[k] ELSE Raise

\* x.get(k, d): AttributeError unless x is a dict.
Get(x, k, d) ==
  IF x.t = "obj" THEN (IF k \in DOMAIN x.v THEN x.v[k] ELSE d) ELSE Raise

(***************************************************************************)
(* Formatting.  A formatted part is [ok, s]: ok is FALSE when evaluating   *)
(* the part raised, s is the text otherwise.                               *)
(***************************************************************************)
Ok(s) == [ok |-> TRUE, s |-> s]
Raised == [ok |-> FALSE, s |-> ""]

\* str(x); the repr of a container is abbreviated.
StrOf(x) ==
  CASE x.t = "null" -> "None"
    [] x.t = "num" -> ToString(x.v)
    [] x.t = "str" -> x.v
    [] x.t = "obj" -> "{...}"
    [] x.t = "list" -> "[...]"

\* f"{x}"
Raw(x) == IF x.t = "raise" THEN Raised ELSE Ok(StrOf(x))

RECURSIVE Zeros(_)
Zeros(d) == IF d = 0 THEN "" ELSE "0" \o Zeros(d - 1)

\* f"{x:.df}" on the integers the model samples; TypeError / ValueError for
\* None, strings and containers.
Fixed(x, d) ==
  IF x.t = "num" THEN Ok(ToString(x.v) \o "." \o Zeros(d)) ELSE Raised

\* str.upper() on the sampled state names.
UpperCase(s) ==
  CASE s = "mining" -> "MINING"
    [] s = "failure" -> "FAILURE"
    [] s = "Stopped" -> "STOPPED"
    [] OTHER -> s

\* x.upper(): AttributeError unless x is a string.
Upper(x) == IF x.t = "str" THEN Ok(UpperCase(x.v)) ELSE Raised

\* len(x): TypeError for None and numbers.
LenOf(x) ==
  CASE x.t = "list" -> Ok(ToString(Len(x.v)))
    [] x.t = "obj" -> Ok(ToString(Cardinality(DOMAIN x.v)))
    [] x.t \in {"null", "num", "raise"} -> Raised

RECURSIVE SeqOfSet(_)
SeqOfSet(S) ==
  IF S = {} THEN <<>>
  ELSE LET e == CHOOSE e \in S : TRUE IN <<Str(e)>> \o SeqOfSet(S \ {e})

\* `for e in x`: iterating a dict yields its keys.
Iterable(x) == x.t \in {"list", "obj"}

Elements(x) ==
  CASE x.t = "list" -> x.v
    [] x.t = "obj" -> SeqOfSet(DOMAIN x.v)
    [] x.t \in {"null", "num", "raise"} -> <<>>

\* datetime.now().strftime(fmt) at clock reading `now`.
Strftime(now, fmt) == [fmt |-> fmt, at |-> now]

(***************************************************************************)
(* Statements.  A statement is [ok, lines]: the lines it prints when its   *)
(* evaluation succeeds.  A block prints the lines of its statements up to  *)
(* the first one that raises.                                              *)
(***************************************************************************)
Emit(parts, line) ==
  [ok |-> \A i \in 1..Len(parts) : parts[i].ok, lines |-> <<line>>]

Assign(x) == [ok |-> x.t # "raise", lines |-> <<>>]

For(x) == [ok |-> Iterable(x), lines |-> <<>>]

RECURSIVE Flatten(_)
Flatten(ss) == IF ss = <<>> THEN <<>> ELSE Head(ss) \o Flatten(Tail(ss))

FirstFail(stmts) ==
  IF \A i \in 1..Len(stmts) : stmts[i].ok THEN Len(stmts) + 1
  ELSE CHOOSE i \in 1..Len(stmts) :
         ~stmts[i].ok /\ \A j \in 1..(i - 1) : stmts[j].ok

Run(stmts) ==
  LET n == FirstFail(stmts) IN
  [lines |-> Flatten([i \in 1..(n - 1) |-> stmts[i].lines]),
   raised |-> n <= Len(stmts)]

(***************************************************************************)
(* parse_miner_stats.  Every printed line is a record: sec is the section  *)
(* it belongs to, k the template line, the other fields the formatted      *)
(* values.                                                                 *)
(***************************************************************************)
BannerWidth == 60
Filled == "U+2713"
Hollow == "U+25CB"
NA == Str("N/A")
Zero == Num(0)

NoData == [sec |-> "nodata", k |-> "No miner data available"]

Rule(sec) == Emit(<<>>, [sec |-> sec, k |-> "rule", width |-> BannerWidth])

Title(now) ==
  Emit(<<>>, [sec |-> "header", k |-> "title",
              ts |-> Strftime(now, "%Y-%m-%d %H:%M:%S")])

Heading(sec) == Emit(<<>>, [sec |-> sec, k |-> "heading"])

\* A line showing one value under a label.
Field(sec, k, part) == Emit(<<part>>, [sec |-> sec, k |-> k, val |-> part.s])

\* Variant: the status lookup without the {} default for miner_status.
BasicInfo_NoDefault(miner) ==
  << Field("basic", "Miner Type", Raw(Get(miner, "miner_type", NA))),
     Field("basic", "Status",
           Upper(Get(Get(miner, "miner_status", None), "miner_state", NA))) >>

BasicInfo(miner) ==
  << Field("basic", "Miner Type", Raw(Get(miner, "miner_type", NA))),
     Field("basic", "Status",
           Upper(Get(Get(miner, "miner_status", EmptyDict), "miner_state", NA))) >>

Hashrate(miner) ==
  << Heading("hashrate"),
     Field("hashrate", "Average", Fixed(Get(miner, "average_hashrate", Zero), 2)),
     Field("hashrate", "Instant", Fixed(Get(miner, "instant_hashrate", Zero), 2)),
     Field("hashrate", "Nominal", Fixed(Get(miner, "hr_nominal", Zero), 2)),
     Field("hashrate", "Realtime", Fixed(Get(miner, "hr_realtime", Zero), 2)) >>

Power(miner) ==
  << Heading("power"),
     Field("power", "Consumption", Raw(Get(miner, "power_consumption", Zero))),
     Field("power", "Efficiency", Fixed(Get(miner, "power_efficiency", Zero), 2)) >>

TempRange(k, temp) ==
  LET lo == Raw(Get(temp, "min", Zero))
      hi == Raw(Get(temp, "max", Zero))
  IN Emit(<<lo, hi>>, [sec |-> "temperature", k |-> k, min |-> lo.s, max |-> hi.s])

Temperature(miner) ==
  LET pcb_temp == Get(miner, "pcb_temp", EmptyDict)
      chip_temp == Get(miner, "chip_temp", EmptyDict)
  IN << Assign(pcb_temp), Assign(chip_temp), Heading("temperature"),
        TempRange("PCB", pcb_temp), TempRange("Chip", chip_temp) >>

Errors(miner) ==
  LET n == Raw(Get(miner, "hw_errors", Zero))
      pct == Raw(Get(miner, "hw_errors_percent", Zero))
  IN << Heading("errors"),
        Emit(<<n, pct>>, [sec |-> "errors", k |-> "Hardware Errors",
                          count |-> n.s, percent |-> pct.s]),
        Field("errors", "Hashrate Error", Raw(Get(miner, "hr_error", Zero))) >>

DevFee(miner) ==
  << Heading("devfee"),
     Field("devfee", "Percentage", Fixed(Get(miner, "devfee_percent", Zero), 3)),
     Field("devfee", "Value", Fixed(Get(miner, "devfee", Zero), 2)) >>

\* Variant: a heading that leaves the count out.
CountHeading_NoCount(sec, xs) == Heading(sec)

\* Section heading carrying len(xs).
CountHeading(sec, xs) ==
  LET n == LenOf(xs) IN Emit(<<n>>, [sec |-> sec, k |-> "heading", count |-> n.s])

\* Variant: any non-empty status counts as active.
IsActive_Truthy(status) == status.t = "str" /\ status.v # ""

\* pool.get('status') == 'active'
IsActive(status) == status.t = "str" /\ status.v = "active"

PoolEntry(pool) ==
  LET status == Get(pool, "status", None)
      id == Raw(Get(pool, "id", None))
      url == Raw(Get(pool, "url", NA))
      st == Raw(Get(pool, "status", NA))
      diff == Raw(Get(pool, "diff", NA))
      acc == Raw(Get(pool, "accepted", Zero))
      rej == Raw(Get(pool, "rejected", Zero))
      stale == Raw(Get(pool, "stale", Zero))
  IN << Emit(<<Raw(status), id, url>>,
             [sec |-> "pools", k |-> "pool",
              icon |-> IF IsActive(status) THEN Filled ELSE Hollow,
              id |-> id.s, url |-> url.s]),
        Emit(<<st, diff>>,
             [sec |-> "pools", k |-> "pool status", status |-> st.s, diff |-> diff.s]),
        Emit(<<acc, rej, stale>>,
             [sec |-> "pools", k |-> "pool counts",
              accepted |-> acc.s, rejected |-> rej.s, stale |-> stale.s]) >>

Pools(miner) ==
  LET pools == Get(miner, "pools", EmptyList)
      es == Elements(pools)
  IN << Assign(pools), CountHeading("pools", pools), For(pools) >>
     \o Flatten([i \in 1..Len(es) |-> PoolEntry(es[i])])

FanEntry(fan) ==
  LET id == Raw(Get(fan, "id", None))
      rpm == Raw(Get(fan, "rpm", Zero))
      st == Raw(Get(fan, "status", NA))
  IN << Emit(<<id, rpm, st>>,
             [sec |-> "cooling", k |-> "fan",
              id |-> id.s, rpm |-> rpm.s, status |-> st.s]) >>

Cooling(miner) ==
  LET cooling == Get(miner, "cooling", EmptyDict)
      fans == Get(cooling, "fans", EmptyList)
      es == Elements(fans)
  IN << Assign(cooling), Assign(fans), Heading("cooling"),
        Field("cooling", "Fan Duty", Raw(Get(cooling, "fan_duty", Zero))),
        Field("cooling", "Mode",
              Raw(Get(Get(Get(cooling, "settings", EmptyDict),
                          "mode", EmptyDict), "name", NA))),
        For(fans) >>
     \o Flatten([i \in 1..Len(es) |-> FanEntry(es[i])])

ChainEntry(chain) ==
  LET id == Raw(Get(chain, "id", None))
      freq == Raw(Get(chain, "frequency", Zero))
      volt == Raw(Get(chain, "voltage", Zero))
      hr == Fixed(Get(chain, "hashrate_rt", Zero), 2)
      pct == Fixed(Get(chain, "hashrate_percentage", Zero), 2)
      pw == Raw(Get(chain, "power_consumption", Zero))
      chip_status == Get(chain, "chip_statuses", EmptyDict)
      grey == Raw(Get(chip_status, "grey", Zero))
      orange == Raw(Get(chip_status, "orange", Zero))
      red == Raw(Get(chip_status, "red", Zero))
  IN << Emit(<<id>>, [sec |-> "chains", k |-> "chain", id |-> id.s]),
        Emit(<<freq, volt>>,
             [sec |-> "chains", k |-> "chain clock",
              frequency |-> freq.s, voltage |-> volt.s]),
        Emit(<<hr, pct>>,
             [sec |-> "chains", k |-> "chain hashrate",
              hashrate |-> hr.s, percentage |-> pct.s]),
        Emit(<<pw>>, [sec |-> "chains", k |-> "chain power", power |-> pw.s]),
        Assign(chip_status),
        Emit(<<grey, orange, red>>,
             [sec |-> "chains", k |-> "chain chips",
              grey |-> grey.s, orange |-> orange.s, red |-> red.s]) >>

Chains(miner) ==
  LET chains == Get(miner, "chains", EmptyList)
      es == Elements(chains)
  IN << Assign(chains), CountHeading("chains", chains), For(chains) >>
     \o Flatten([i \in 1..Len(es) |-> ChainEntry(es[i])])

Report(miner, now) ==
  << Rule("header"), Title(now), Rule("header") >>
  \o BasicInfo(miner) \o Hashrate(miner) \o Power(miner) \o Temperature(miner)
  \o Errors(miner) \o DevFee(miner) \o Pools(miner) \o Cooling(miner)
  \o Chains(miner) \o << Rule("closing") >>

\* Variant: the guard tests `not data` only.
parse_miner_stats_NoKeyTest(d, now) ==
  IF ~Truthy(d) THEN [lines |-> <<NoData>>, raised |-> FALSE]
  ELSE IF Subscript(d, "miner").t = "raise" THEN [lines |-> <<>>, raised |-> TRUE]
  ELSE Run(Report(Subscript(d, "miner"), now))

\* parse_miner_stats(data) called at clock reading `now`: the lines printed
\* and whether an exception left the call.
parse_miner_stats(d, now) ==
  IF ~Truthy(d) THEN [lines |-> <<NoData>>, raised |-> FALSE]
  ELSE IF ~HasContains(d) THEN [lines |-> <<>>, raised |-> TRUE]
  ELSE IF ~Contains(d, "miner") THEN [lines |-> <<NoData>>, raised |-> FALSE]
  ELSE IF Subscript(d, "miner").t = "raise" THEN [lines |-> <<>>, raised |-> TRUE]
  ELSE Run(Report(Subscript(d, "miner"), now))

(***************************************************************************)
(* The status documents the model samples.  A miner object is built per    *)
(* section of the report: the keys one section reads take every            *)
(* combination of absent / present (with each sampled value, JSON null     *)
(* included), while the keys of the other sections are all absent or all   *)
(* present with a typical value.                                           *)
(***************************************************************************)
SeqsUpTo(S, n) == UNION {[1..m -> S] : m \in 0..n}

\* The dict with keys S and values val[k].
Dict(S, val) == Obj([k \in S |-> val[k]])

PoolKeys == {"id", "url", "status", "diff", "accepted", "rejected", "stale"}

PoolOver(S, id, st) ==
  Obj([k \in S |->
        CASE k = "id" -> Num(id)
          [] k = "url" -> Str("stratum+tcp://pool.example:3333")
          [] k = "status" -> Str(st)
          [] k = "diff" -> Str("65536")
          [] k = "accepted" -> Num(10)
          [] k = "rejected" -> Num(2)
          [] k = "stale" -> Num(1)])

PoolEntries == {PoolOver(S, 1, st) : S \in SUBSET PoolKeys, st \in {"active", "dead"}}

PoolSamples ==
  {PoolOver(PoolKeys, 1, "active"), PoolOver(PoolKeys, 2, "dead"),
   PoolOver({"id", "url", "accepted"}, 3, "active"), None}

PoolLists ==
  {List(<<p>>) : p \in PoolEntries} \cup {List(s) : s \in SeqsUpTo(PoolSamples, MaxPools)}

FanKeys == {"id", "rpm", "status"}

FanOver(S, id) ==
  Obj([k \in S |->
        CASE k = "id" -> Num(id)
          [] k = "rpm" -> Num(4200)
          [] k = "status" -> Str("ok")])

FanSamples == {FanOver(FanKeys, 1), FanOver(FanKeys, 2), FanOver({"id"}, 3), None}

FanLists ==
  {List(<<FanOver(S, 1)>>) : S \in SUBSET FanKeys}
  \cup {List(s) : s \in SeqsUpTo(FanSamples, MaxFans)}

ModeAuto == Obj([name |-> Str("auto")])

SettingsSamples ==
  {EmptyDict, Obj([mode |-> EmptyDict]), Obj([mode |-> ModeAuto]),
   Obj([mode |-> None]), None}

CoolingKeys == {"fan_duty", "settings", "fans"}

CoolingSamples ==
  {None} \cup
  {Obj([k \in S |->
         CASE k = "fan_duty" -> Num(80)
           [] k = "settings" -> st
           [] k = "fans" -> fs]) :
     S \in SUBSET CoolingKeys, st \in SettingsSamples, fs \in FanLists \cup {None}}

ChipKeys == {"grey", "orange", "red"}

ChipSamples == {Obj([k \in S |-> Num(1)]) : S \in SUBSET ChipKeys} \cup {None}

ChainKeys ==
  {"id", "frequency", "voltage", "hashrate_rt", "hashrate_percentage",
   "power_consumption", "chip_statuses"}

ChainOver(S, id, chips) ==
  Obj([k \in S |->
        CASE k = "id" -> Num(id)
          [] k = "frequency" -> Num(525)
          [] k = "voltage" -> Num(1360)
          [] k = "hashrate_rt" -> Num(31000)
          [] k = "hashrate_percentage" -> Num(33)
          [] k = "power_consumption" -> Num(1100)
          [] k = "chip_statuses" -> chips])

ChainEntries == {ChainOver(S, 1, c) : S \in SUBSET ChainKeys, c \in ChipSamples}

ChainSamples ==
  {ChainOver(ChainKeys, 1, Dict(ChipKeys, [k \in ChipKeys |-> Num(0)])),
   ChainOver(ChainKeys \ {"chip_statuses"}, 2, None),
   ChainOver({"id"}, 3, None), None}

ChainLists ==
  {List(<<c>>) : c \in ChainEntries} \cup {List(s) : s \in SeqsUpTo(ChainSamples, MaxChains)}

TempSamples ==
  {Obj([k \in S |-> IF k = "min" THEN Num(40) ELSE Num(75)]) : S \in SUBSET {"min", "max"}}
  \cup {None}

NumericKeys ==
  {"average_hashrate", "instant_hashrate", "hr_nominal", "hr_realtime",
   "power_consumption", "power_efficiency", "hw_errors", "hw_errors_percent",
   "hr_error", "devfee_percent", "devfee"}

\* The sampled values of each key of the miner object.
Vals(k) ==
  CASE k = "miner_type" -> {Str("Antminer S19"), None}
    [] k = "miner_status" ->
         {EmptyDict, Obj([miner_state |-> Str("mining")]),
          Obj([miner_state |-> None]), None}
    [] k \in NumericKeys -> {Num(95), None}
    [] k \in {"pcb_temp", "chip_temp"} -> TempSamples
    [] k = "pools" -> PoolLists \cup {None}
    [] k = "cooling" -> CoolingSamples
    [] k = "chains" -> ChainLists \cup {None}

\* The value a key has when it belongs to another section than the one varied.
Typical(k) ==
  CASE k = "miner_type" -> Str("Antminer S19")
    [] k = "miner_status" -> Obj([miner_state |-> Str("mining")])
    [] k \in NumericKeys -> Num(95)
    [] k \in {"pcb_temp", "chip_temp"} -> Obj([min |-> Num(40), max |-> Num(75)])
    [] k = "pools" -> List(<<PoolOver(PoolKeys, 1, "active")>>)
    [] k = "cooling" ->
         Obj([fan_duty |-> Num(80), settings |-> Obj([mode |-> ModeAuto]),
              fans |-> List(<<FanOver(FanKeys, 1)>>)])
    [] k = "chains" ->
         List(<<ChainOver(ChainKeys, 1, Dict(ChipKeys, [c \in ChipKeys |-> Num(0)]))>>)

\* The keys the sections of parse_miner_stats read.
SectionKeys ==
  { {"miner_type", "miner_status"},
    {"average_hashrate", "instant_hashrate", "hr_nominal", "hr_realtime"},
    {"power_consumption", "power_efficiency"},
    {"pcb_temp", "chip_temp"},
    {"hw_errors", "hw_errors_percent", "hr_error"},
    {"devfee_percent", "devfee"},
    {"pools"}, {"cooling"}, {"chains"} }

MinerKeys == UNION SectionKeys

Choices(sub) ==
  {f \in [sub -> UNION {Vals(k) : k \in sub}] : \A k \in sub : f[k] \in Vals(k)}

MinersVarying(G) ==
  UNION { UNION { {Obj([k \in sub \cup rest |-> IF k \in sub THEN f[k] ELSE Typical(k)]) :
                     f \in Choices(sub)} :
                  sub \in SUBSET G } :
          rest \in {{}, MinerKeys \ G} }

Miners == UNION {MinersVarying(G) : G \in SectionKeys} \cup {None}

\* Documents without a `miner` key at their root, and roots that are no dict.
RootsWithoutMiner ==
  {None, EmptyDict, Obj([error |-> Str("unauthorized")]), EmptyList,
   List(<<Num(1)>>), Num(0)}

\* Truthy roots that are no dict: `in` raises on a number, and a list that
\* holds "miner" passes the guard and raises at data['miner'].
OtherRoots == {Num(5), List(<<Str("miner")>>)}

Docs == {Obj([miner |-> m]) : m \in Miners} \cup RootsWithoutMiner \cup OtherRoots

(***************************************************************************)
(* MinerAPI.__init__, check_auth and get_summary.                          *)
(***************************************************************************)
base_url == "http://172.16.58.104"
RequestTimeout == 10

\* Variant: the environment variable takes precedence over the argument.
ApiKeyOf_EnvFirst(a, env) == IF Truthy(env) THEN env ELSE a

\* api_key or os.environ.get('MINER_API_KEY')
ApiKeyOf(a, env) == IF Truthy(a) THEN a ELSE env

\* self.headers as built by the constructor.
HeadersOf(key) ==
  IF Truthy(key)
  THEN [accept |-> "application/json", Authorization |-> "Bearer " \o key.v]
  ELSE [accept |-> "application/json"]

\* The request requests.get sends.
Request(path, hdrs) ==
  [method |-> "GET", url |-> base_url \o path, headers |-> hdrs,
   timeout |-> RequestTimeout]

\* What a request can come to: a 2xx response with a JSON body, a response
\* with a non-success status (raise_for_status raises HTTPError), a network
\* error, or no answer within the timeout.
FailureKinds == {"http_error", "connection_error", "timeout"}

Outcomes(bodies) ==
  {[kind |-> "ok", body |-> b] : b \in bodies}
  \cup {[kind |-> f, body |-> None] : f \in FailureKinds}

\* Variant: except requests.exceptions.HTTPError.
Caught_HTTPErrorOnly(kind) == kind = "http_error"

\* except requests.exceptions.RequestException: HTTPError, ConnectionError
\* and Timeout are all subclasses of it.
Caught(kind) == kind \in {"http_error", "connection_error", "timeout"}

\* The try block shared by check_auth and get_summary: the value returned,
\* the lines printed, and whether an exception left the call.
Fetch(label, outcome) ==
  IF outcome.kind = "ok"
  THEN [ret |-> outcome.body, lines |-> <<>>, raised |-> FALSE]
  ELSE IF Caught(outcome.kind)
  THEN [ret |-> EmptyDict,
        lines |-> <<[sec |-> "log", k |-> label, err |-> outcome.kind]>>,
        raised |-> FALSE]
  ELSE [ret |-> None, lines |-> <<>>, raised |-> TRUE]

check_auth(outcome) == Fetch("Error checking auth", outcome)

get_summary(outcome) == Fetch("Error getting summary", outcome)

AuthCheckPath == "/api/v1/auth-check"
SummaryPath == "/api/v1/summary"

\* Sampled inputs of the client.
ApiKeyArgs == {None, Str(""), Str("secret")}
EnvValues == {None, Str(""), Str("envkey")}
Bodies == {EmptyDict, Obj([status |-> Str("ok")]), EmptyList, None}

NoHeaders == <<>>

(***************************************************************************)
(* The client used on its own: construct it, then call check_auth and      *)
(* get_summary in any order.                                               *)
(***************************************************************************)
InitApi ==
  /\ pc = "new"
  /\ environ \in EnvValues
  /\ arg = None
  /\ api_key = None
  /\ headers = NoHeaders
  /\ requests = <<>>
  /\ responses = <<>>
  /\ ret = None
  /\ auth_status = None
  /\ summary_data = None
  /\ data = None
  /\ stdout = <<>>
  /\ files = <<>>
  /\ exc = FALSE
  /\ clock = 0

Construct ==
  /\ pc = "new"
  /\ \E a \in ApiKeyArgs :
       /\ arg' = a
       /\ api_key' = ApiKeyOf(a, environ)
       /\ headers' = HeadersOf(ApiKeyOf(a, environ))
  /\ pc' = "ready"
  /\ UNCHANGED <<environ, requests, responses, ret, auth_status, summary_data,
                 data, stdout, files, exc, clock>>

CallCheckAuth ==
  /\ pc = "ready"
  /\ Len(requests) < MaxCalls
  /\ \E o \in Outcomes(Bodies) :
       LET r == check_auth(o) IN
       /\ requests' = Append(requests, Request(AuthCheckPath, headers))
       /\ responses' = Append(responses, o)
       /\ ret' = r.ret
       /\ stdout' = stdout \o r.lines
       /\ exc' = r.raised
       /\ pc' = IF r.raised THEN "crashed" ELSE "ready"
  /\ UNCHANGED <<environ, arg, api_key, headers, auth_status, summary_data,
                 data, files, clock>>

CallGetSummary ==
  /\ pc = "ready"
  /\ Len(requests) < MaxCalls
  /\ \E o \in Outcomes(Bodies) :
       LET r == get_summary(o) IN
       /\ requests' = Append(requests, Request(SummaryPath, headers))
       /\ responses' = Append(responses, o)
       /\ ret' = r.ret
       /\ stdout' = stdout \o r.lines
       /\ exc' = r.raised
       /\ pc' = IF r.raised THEN "crashed" ELSE "ready"
  /\ UNCHANGED <<environ, arg, api_key, headers, auth_status, summary_data,
                 data, files, clock>>

NextApi == Construct \/ CallCheckAuth \/ CallGetSummary

SpecApi == InitApi /\ [][NextApi]_vars

(***************************************************************************)
(* The renderer called on its own: parse_miner_stats applied to a document. *)
(***************************************************************************)
InitRender ==
  /\ pc = "call"
  /\ data \in Docs
  /\ environ = None
  /\ arg = None
  /\ api_key = None
  /\ headers = NoHeaders
  /\ requests = <<>>
  /\ responses = <<>>
  /\ ret = None
  /\ auth_status = None
  /\ summary_data = None
  /\ stdout = <<>>
  /\ files = <<>>
  /\ exc = FALSE
  /\ clock = 0

RenderCall ==
  /\ pc = "call"
  /\ \E now \in clock..MaxClock :
       LET r == parse_miner_stats(data, now) IN
       /\ stdout' = stdout \o r.lines
       /\ exc' = r.raised
       /\ clock' = now
  /\ pc' = "returned"
  /\ UNCHANGED <<environ, arg, api_key, headers, requests, responses, ret,
                 auth_status, summary_data, data, files>>

NextRender == RenderCall

SpecRender == InitRender /\ [][NextRender]_vars

(***************************************************************************)
(* main.                                                                   *)
(***************************************************************************)
MainApiKey == Str("your_api_key_here")

\* json.dumps(x, indent=n) / json.dump(x, f, indent=n): the JSON text of x.
JsonDumps(x, indent) == [json |-> x, indent |-> indent]

Filename(now) == [prefix |-> "miner_stats_", ts |-> Strftime(now, "%Y%m%d_%H%M%S"),
                  suffix |-> ".json"]

\* The summary documents main is run against.
MainMiners ==
  MinersVarying({"miner_type", "miner_status"})
  \cup MinersVarying({"power_consumption", "power_efficiency"})
  \cup {Obj([pools |-> pl]) : pl \in {List(s) : s \in SeqsUpTo(PoolSamples, 1)}}
  \cup {None}

MainDocs == {Obj([miner |-> m]) : m \in MainMiners} \cup RootsWithoutMiner

Init ==
  /\ pc = "start"
  /\ environ \in EnvValues
  /\ arg = None
  /\ api_key = None
  /\ headers = NoHeaders
  /\ requests = <<>>
  /\ responses = <<>>
  /\ ret = None
  /\ auth_status = None
  /\ summary_data = None
  /\ data = None
  /\ stdout = <<>>
  /\ files = <<>>
  /\ exc = FALSE
  /\ clock = 0

\* api = MinerAPI(api_key=api_key)
MainConstruct ==
  /\ pc = "start"
  /\ arg' = MainApiKey
  /\ api_key' = ApiKeyOf(MainApiKey, environ)
  /\ headers' = HeadersOf(ApiKeyOf(MainApiKey, environ))
  /\ pc' = "check_auth"
  /\ UNCHANGED <<environ, requests, responses, ret, auth_status, summary_data,
                 data, stdout, files, exc, clock>>

\* Variant: main gives up when the auth check returned nothing.
AfterAuth_StopOnEmpty(r) ==
  IF r.raised THEN "crashed" ELSE IF Truthy(r.ret) THEN "get_summary" ELSE "done"

\* The step main takes after the auth check; the result is only printed.
AfterAuth(r) == IF r.raised THEN "crashed" ELSE "get_summary"

MainCheckAuth ==
  /\ pc = "check_auth"
  /\ \E o \in Outcomes(Bodies) :
       LET r == check_auth(o) IN
       /\ requests' = Append(requests, Request(AuthCheckPath, headers))
       /\ responses' = Append(responses, o)
       /\ ret' = r.ret
       /\ auth_status' = IF r.raised THEN auth_status ELSE r.ret
       /\ stdout' = stdout
            \o <<[sec |-> "main", k |-> "Checking authentication..."]>>
            \o r.lines
            \o (IF r.raised THEN <<>>
                ELSE <<[sec |-> "main", k |-> "Auth Status",
                        val |-> JsonDumps(r.ret, 2)]>>)
       /\ exc' = r.raised
       /\ pc' = AfterAuth(r)
  /\ UNCHANGED <<environ, arg, api_key, headers, summary_data, data, files, clock>>

MainGetSummary ==
  /\ pc = "get_summary"
  /\ \E o \in Outcomes(MainDocs) :
       LET r == get_summary(o) IN
       /\ requests' = Append(requests, Request(SummaryPath, headers))
       /\ responses' = Append(responses, o)
       /\ ret' = r.ret
       /\ summary_data' = IF r.raised THEN summary_data ELSE r.ret
       /\ stdout' = stdout
            \o <<[sec |-> "main", k |-> "Fetching miner summary..."]>>
            \o r.lines
       /\ exc' = r.raised
       /\ pc' = IF r.raised THEN "crashed" ELSE "report"
  /\ UNCHANGED <<environ, arg, api_key, headers, auth_status, data, files, clock>>

\* if summary_data: api.parse_miner_stats(summary_data)
MainParse ==
  /\ pc = "report"
  /\ Truthy(summary_data)
  /\ \E now \in clock..MaxClock :
       LET r == parse_miner_stats(summary_data, now) IN
       /\ data' = summary_data
       /\ stdout' = stdout \o r.lines
       /\ exc' = r.raised
       /\ clock' = now
       /\ pc' = IF r.raised THEN "crashed" ELSE "save"
  /\ UNCHANGED <<environ, arg, api_key, headers, requests, responses, ret,
                 auth_status, summary_data, files>>

\* The rest of the if branch: the document is written to the file.
MainSave ==
  /\ pc = "save"
  /\ \E now \in clock..MaxClock :
       /\ files' = Append(files, [name |-> Filename(now),
                                  content |-> JsonDumps(summary_data, 2)])
       /\ stdout' = Append(stdout, [sec |-> "main", k |-> "Data saved to",
                                    val |-> Filename(now)])
       /\ clock' = now
  /\ pc' = "done"
  /\ UNCHANGED <<environ, arg, api_key, headers, requests, responses, ret,
                 auth_status, summary_data, data, exc>>

\* else: print("Failed to retrieve miner data")
MainFailed ==
  /\ pc = "report"
  /\ ~Truthy(summary_data)
  /\ stdout' = Append(stdout, [sec |-> "main", k |-> "Failed to retrieve miner data"])
  /\ pc' = "done"
  /\ UNCHANGED <<environ, arg, api_key, headers, requests, responses, ret,
                 auth_status, summary_data, data, files, exc, clock>>

Next ==
  \/ MainConstruct
  \/ MainCheckAuth
  \/ MainGetSummary
  \/ MainParse
  \/ MainSave
  \/ MainFailed

Spec == Init /\ [][Next]_vars

(***************************************************************************)
(* Vocabulary of the properties.                                           *)
(***************************************************************************)
Returned == pc = "returned"

HasMiner(d) == d.t = "obj" /\ "miner" \in DOMAIN d.v

\* Absent, empty, or a root without a `miner` key.
LacksMiner(d) ==
  \/ d.t = "null"
  \/ d.t = "obj" /\ "miner" \notin DOMAIN d.v
  \/ d = EmptyList

MinerOf(d) == d.v["miner"]

Present(o, k) == o.t = "obj" /\ k \in DOMAIN o.v

\* The lines of `out` with template line k, in output order.
LinesOf(out, sec, k) == SelectSeq(out, LAMBDA l : l.sec = sec /\ l.k = k)

\* Positions of the lines of a section.
Where(out, sec) == {i \in 1..Len(out) : out[i].sec = sec}

\* The count a heading shows (the empty text when it shows none).
CountShown(l) == IF "count" \in DOMAIN l THEN l.count ELSE ""

\* The elements of the sequence at miner[k]: none when it is absent.
InputSeq(o, k) == IF Present(o, k) /\ o.v[k].t = "list" THEN o.v[k].v ELSE <<>>

\* str() of the field k of entry e, d when the entry has no such field.
Shown(e, k, d) == IF k \in DOMAIN e.v THEN StrOf(e.v[k]) ELSE d

\* Some link of the lookup chain `path` from o is missing, every link before
\* it being a dict.
RECURSIVE MissingLink(_, _)
MissingLink(o, path) ==
  /\ o.t = "obj"
  /\ \/ Head(path) \notin DOMAIN o.v
     \/ Len(path) > 1 /\ MissingLink(o.v[Head(path)], Tail(path))

\* The document has the shape of the data model: every value that is present
\* has the type its position calls for.
IsNum(x) == x.t = "num"
IsStr(x) == x.t = "str"
Typed(o, k, P(_)) == k \in DOMAIN o.v => P(o.v[k])
AllTyped(o, ks, P(_)) == o.t = "obj" /\ \A k \in ks : Typed(o, k, P)
IsListOf(x, P(_)) == x.t = "list" /\ \A i \in 1..Len(x.v) : P(x.v[i])

ShapedStatus(x) == AllTyped(x, {"miner_state"}, IsStr)
ShapedTemp(x) == AllTyped(x, {"min", "max"}, IsNum)
ShapedPool(x) ==
  /\ AllTyped(x, {"id", "accepted", "rejected", "stale"}, IsNum)
  /\ AllTyped(x, {"url", "status", "diff"}, IsStr)
ShapedFan(x) == AllTyped(x, {"id", "rpm"}, IsNum) /\ AllTyped(x, {"status"}, IsStr)
ShapedPools(x) == IsListOf(x, ShapedPool)
ShapedFans(x) == IsListOf(x, ShapedFan)
ShapedMode(x) == AllTyped(x, {"name"}, IsStr)
ShapedSettings(x) == AllTyped(x, {"mode"}, ShapedMode)
ShapedCooling(x) ==
  /\ AllTyped(x, {"fan_duty"}, IsNum)
  /\ AllTyped(x, {"settings"}, ShapedSettings)
  /\ AllTyped(x, {"fans"}, ShapedFans)
ShapedChips(x) == AllTyped(x, ChipKeys, IsNum)
ShapedChain(x) ==
  /\ AllTyped(x, ChainKeys \ {"chip_statuses"}, IsNum)
  /\ AllTyped(x, {"chip_statuses"}, ShapedChips)
ShapedChains(x) == IsListOf(x, ShapedChain)

ShapedMiner(m) ==
  /\ AllTyped(m, {"miner_type"}, IsStr)
  /\ AllTyped(m, {"miner_status"}, ShapedStatus)
  /\ AllTyped(m, NumericKeys, IsNum)
  /\ AllTyped(m, {"pcb_temp", "chip_temp"}, ShapedTemp)
  /\ AllTyped(m, {"pools"}, ShapedPools)
  /\ AllTyped(m, {"cooling"}, ShapedCooling)
  /\ AllTyped(m, {"chains"}, ShapedChains)

Shaped(d) == HasMiner(d) /\ ShapedMiner(MinerOf(d))

\* The order of the sections of a full report.
SectionOrder ==
  <<"header", "basic", "hashrate", "power", "temperature", "errors",
    "devfee", "pools", "cooling", "chains", "closing">>

SectionIndex(sec) == CHOOSE i \in 1..Len(SectionOrder) : SectionOrder[i] = sec

\* Every section occurs, and the lines are grouped by section in the order
\* of SectionOrder.
SectionsInOrder(out) ==
  /\ \A i \in 1..Len(out) : \E j \in 1..Len(SectionOrder) : out[i].sec = SectionOrder[j]
  /\ \A j \in 1..Len(SectionOrder) : Where(out, SectionOrder[j]) # {}
  /\ \A i \in 1..(Len(out) - 1) :
       SectionIndex(out[i].sec) <= SectionIndex(out[i + 1].sec)

\* The template lines that do not depend on the length of a sequence, as
\* (section, line, number of occurrences).
FixedTemplate ==
  { <<"header", "rule", 2>>, <<"header", "title", 1>>,
    <<"basic", "Miner Type", 1>>, <<"basic", "Status", 1>>,
    <<"hashrate", "heading", 1>>, <<"hashrate", "Average", 1>>,
    <<"hashrate", "Instant", 1>>, <<"hashrate", "Nominal", 1>>,
    <<"hashrate", "Realtime", 1>>,
    <<"power", "heading", 1>>, <<"power", "Consumption", 1>>,
    <<"power", "Efficiency", 1>>,
    <<"temperature", "heading", 1>>, <<"temperature", "PCB", 1>>,
    <<"temperature", "Chip", 1>>,
    <<"errors", "heading", 1>>, <<"errors", "Hardware Errors", 1>>,
    <<"errors", "Hashrate Error", 1>>,
    <<"devfee", "heading", 1>>, <<"devfee", "Percentage", 1>>,
    <<"devfee", "Value", 1>>,
    <<"pools", "heading", 1>>,
    <<"cooling", "heading", 1>>, <<"cooling", "Fan Duty", 1>>,
    <<"cooling", "Mode", 1>>,
    <<"chains", "heading", 1>>,
    <<"closing", "rule", 1>> }

FullReport(out) ==
  /\ SectionsInOrder(out)
  /\ \A t \in FixedTemplate : Len(LinesOf(out, t[1], t[2])) = t[3]
  /\ out[Len(out)] = [sec |-> "closing", k |-> "rule", width |-> BannerWidth]

(***************************************************************************)
(* Properties of parse_miner_stats, checked under SpecRender.              *)
(***************************************************************************)

\* C1: for a document that is absent, empty or has no `miner` key at its
\* root, the call returns normally and its whole output is the one line
\* "No miner data available".
C1_NoMinerData ==
  (Returned /\ LacksMiner(data)) => (stdout = <<NoData>> /\ ~exc)

C1_Witness ==
  /\ Returned
  /\ data = Obj([error |-> Str("unauthorized")])
  /\ stdout = <<NoData>>

\* C2: for every document whose root has a `miner` key the call runs to
\* completion and prints the full report: all sections in their fixed
\* order, every template line, the closing banner last.
C2_FullReportWheneverMinerKey ==
  (Returned /\ HasMiner(data)) => (~exc /\ FullReport(stdout))

\* Supporting fact for C2: the report is complete whenever the document has
\* the shape of the data model, whichever of its fields are absent.
ShapedRendersFully ==
  (Returned /\ Shaped(data)) => (~exc /\ FullReport(stdout))

ShapedSparseWitness ==
  Returned /\ data = Obj([miner |-> EmptyDict]) /\ ~exc /\ Len(stdout) = 28

\* The entries printed for the sequence at miner[k] are one per element, in
\* the order of the sequence: entry i shows the id of element i; after a
\* return without exception there are as many entries as elements.
EntriesFollow(sec, entry, k) ==
  LET es == InputSeq(MinerOf(data), k)
      ls == LinesOf(stdout, sec, entry)
  IN /\ Len(ls) <= Len(es)
     /\ \A i \in 1..Len(ls) : es[i].t = "obj" /\ ls[i].id = Shown(es[i], "id", "None")
     /\ ~exc => Len(ls) = Len(es)

\* The heading of the section shows the length of the sequence at miner[k].
HeadingCounts(sec, k) ==
  \A i \in Where(stdout, sec) :
    stdout[i].k = "heading" =>
      CountShown(stdout[i]) = ToString(Len(InputSeq(MinerOf(data), k)))

FansOf(d) ==
  IF Present(MinerOf(d), "cooling")
  THEN InputSeq(MinerOf(d).v["cooling"], "fans") ELSE <<>>

FanEntriesFollow ==
  LET es == FansOf(data)
      ls == LinesOf(stdout, "cooling", "fan")
  IN /\ Len(ls) <= Len(es)
     /\ \A i \in 1..Len(ls) : es[i].t = "obj" /\ ls[i].id = Shown(es[i], "id", "None")
     /\ ~exc => Len(ls) = Len(es)

\* C3 as stated: the pools, chains and fans headings each show the length
\* of their sequence (and the entries follow the sequence).
C3_ThreeCountHeadings ==
  (Returned /\ HasMiner(data) /\ MinerOf(data).t = "obj") =>
    /\ HeadingCounts("pools", "pools")
    /\ HeadingCounts("chains", "chains")
    /\ \A i \in Where(stdout, "cooling") :
         stdout[i].k = "heading" =>
           CountShown(stdout[i]) = ToString(Len(FansOf(data)))

\* C3 amended: the pools and chains headings show the length of their
\* sequence, 0 when it is empty or absent; the cooling heading shows no
\* count; pool, chain and fan entries are printed once per element in the
\* order of the sequence, none when it is empty or absent.
C3_CountsAndEntries ==
  (Returned /\ HasMiner(data) /\ MinerOf(data).t = "obj") =>
    /\ HeadingCounts("pools", "pools")
    /\ HeadingCounts("chains", "chains")
    /\ \A i \in Where(stdout, "cooling") :
         stdout[i].k = "heading" => CountShown(stdout[i]) = ""
    /\ EntriesFollow("pools", "pool", "pools")
    /\ EntriesFollow("chains", "chain", "chains")
    /\ FanEntriesFollow
    /\ ~exc => /\ Len(LinesOf(stdout, "pools", "heading")) = 1
               /\ Len(LinesOf(stdout, "chains", "heading")) = 1

C3_Witness ==
  /\ Returned /\ ~exc /\ HasMiner(data)
  /\ Len(InputSeq(MinerOf(data), "pools")) = 2
  /\ InputSeq(MinerOf(data), "pools")[1] # InputSeq(MinerOf(data), "pools")[2]
  /\ Len(LinesOf(stdout, "pools", "pool")) = 2
  /\ "chains" \notin DOMAIN MinerOf(data).v
  /\ LinesOf(stdout, "chains", "heading")[1].count = "0"

\* C4: the marker of a pool entry is the filled one exactly when the entry's
\* status equals "active"; an entry without status has the hollow marker and
\* shows status N/A; absent accepted / rejected / stale show 0.
C4_PoolMarker ==
  (Returned /\ HasMiner(data) /\ MinerOf(data).t = "obj") =>
    LET es == InputSeq(MinerOf(data), "pools")
        l1 == LinesOf(stdout, "pools", "pool")
        l2 == LinesOf(stdout, "pools", "pool status")
        l3 == LinesOf(stdout, "pools", "pool counts")
    IN /\ \A i \in 1..Len(l1) :
            /\ l1[i].icon \in {Filled, Hollow}
            /\ l1[i].icon = Filled <=>
                 ("status" \in DOMAIN es[i].v /\ es[i].v["status"] = Str("active"))
       /\ \A i \in 1..Len(l2) :
            "status" \notin DOMAIN es[i].v =>
              l1[i].icon = Hollow /\ l2[i].status = "N/A"
       /\ \A i \in 1..Len(l3) :
            /\ "accepted" \notin DOMAIN es[i].v => l3[i].accepted = "0"
            /\ "rejected" \notin DOMAIN es[i].v => l3[i].rejected = "0"
            /\ "stale" \notin DOMAIN es[i].v => l3[i].stale = "0"
       /\ ~exc => Len(l1) = Len(es) /\ Len(l2) = Len(es) /\ Len(l3) = Len(es)

C4_Witness ==
  /\ Returned /\ ~exc /\ HasMiner(data)
  /\ LET es == InputSeq(MinerOf(data), "pools")
         l1 == LinesOf(stdout, "pools", "pool")
     IN /\ Len(es) = 2 /\ Len(l1) = 2
        /\ es[1] = PoolOver(PoolKeys, 1, "active") /\ l1[1].icon = Filled
        /\ es[2] = PoolOver({"id", "url", "accepted"}, 3, "active")
        /\ l1[2].icon = Hollow

\* C5: when a link of miner.cooling.settings.mode.name is missing the Mode
\* line shows N/A, and when a link of miner.miner_status.miner_state is
\* missing the Status line shows N/A; the line is printed and, in a
\* document of the data model's shape, the report runs to its closing
\* banner.
C5_NestedDefaults ==
  (Returned /\ HasMiner(data)) =>
    LET m == MinerOf(data) IN
    /\ MissingLink(m, <<"cooling", "settings", "mode", "name">>) =>
         /\ \A i \in 1..Len(stdout) :
              (stdout[i].sec = "cooling" /\ stdout[i].k = "Fan Duty") =>
                /\ i < Len(stdout)
                /\ stdout[i + 1] = [sec |-> "cooling", k |-> "Mode", val |-> "N/A"]
         /\ Shaped(data) =>
              /\ Len(LinesOf(stdout, "cooling", "Mode")) = 1
              /\ ~exc /\ stdout[Len(stdout)].sec = "closing"
    /\ MissingLink(m, <<"miner_status", "miner_state">>) =>
         /\ Len(stdout) >= 5
         /\ stdout[5] = [sec |-> "basic", k |-> "Status", val |-> "N/A"]
         /\ Shaped(data) => ~exc /\ stdout[Len(stdout)].sec = "closing"

C5_Witness ==
  /\ Returned /\ ~exc /\ HasMiner(data)
  /\ Present(MinerOf(data), "cooling")
  /\ Present(MinerOf(data).v["cooling"], "settings")
  /\ MinerOf(data).v["cooling"].v["settings"] = Obj([mode |-> EmptyDict])
  /\ LinesOf(stdout, "cooling", "Mode")[1].val = "N/A"
  /\ stdout[Len(stdout)].sec = "closing"

(***************************************************************************)
(* Properties of the client, checked under SpecApi.                        *)
(***************************************************************************)
LogLabel(url) ==
  IF url = base_url \o AuthCheckPath THEN "Error checking auth"
  ELSE "Error getting summary"

Failures(rs) == SelectSeq(rs, LAMBDA o : o.kind # "ok")

\* C6: check_auth and get_summary return {} on a network error, a timeout or
\* a non-2xx response, log the error and let no exception out; they return
\* the decoded body when the request succeeded, and log nothing then.
C6_FailuresBecomeEmpty ==
  /\ ~exc /\ pc # "crashed"
  /\ Len(stdout) = Len(Failures(responses))
  /\ Len(responses) > 0 =>
       LET n == Len(responses)
           o == responses[n]
       IN /\ o.kind = "ok" => ret = o.body
          /\ o.kind # "ok" =>
               /\ ret = EmptyDict
               /\ stdout[Len(stdout)] =
                    [sec |-> "log", k |-> LogLabel(requests[n].url), err |-> o.kind]

C6_Witness ==
  /\ Len(responses) = 2
  /\ responses[1].kind = "timeout" /\ requests[1].url = base_url \o SummaryPath
  /\ responses[2] = [kind |-> "ok", body |-> Obj([status |-> Str("ok")])]
  /\ ret = Obj([status |-> Str("ok")])
  /\ Len(stdout) = 1

Constructed == pc # "new"

HeadersFixed ==
  \A i \in 1..Len(requests) :
    /\ requests[i].headers = headers
    /\ requests[i].headers = HeadersOf(api_key)
    /\ requests[i].headers["accept"] = "application/json"
    /\ "Authorization" \in DOMAIN requests[i].headers <=> Truthy(api_key)
    /\ Truthy(api_key) =>
         requests[i].headers["Authorization"] = "Bearer " \o api_key.v

\* C10 as stated: the credential is the constructor argument when one is
\* given, else the value of MINER_API_KEY, and the requests carry the
\* Authorization header exactly when that credential is configured.
C10_ArgumentWhenGiven ==
  Constructed => headers = HeadersOf(IF arg # None THEN arg ELSE environ)

\* C10 amended: the credential is the constructor argument when a non-empty
\* one is given; without an argument, or with the empty string as argument,
\* it is the value of MINER_API_KEY (None when unset), with no further
\* fallback.  Every request carries accept: application/json, carries
\* Authorization: Bearer <credential> exactly when the credential is
\* non-empty, and carries the header set built at construction.
C10_Credential ==
  Constructed =>
    /\ Truthy(arg) => api_key = arg
    /\ ~Truthy(arg) => api_key = environ
    /\ headers = HeadersOf(api_key)
    /\ DOMAIN headers \subseteq {"accept", "Authorization"}
    /\ HeadersFixed

C10_Witness ==
  /\ Constructed
  /\ arg = Str("") /\ environ = Str("envkey") /\ api_key = Str("envkey")
  /\ Len(requests) = 2
  /\ requests[1].url = base_url \o AuthCheckPath
  /\ requests[2].url = base_url \o SummaryPath
  /\ requests[1].headers["Authorization"] = "Bearer envkey"
  /\ requests[2].headers = requests[1].headers

(***************************************************************************)
(* Properties of main, checked under Spec.                                 *)
(***************************************************************************)
\* main has ended: it returned, or an exception left it.
Ended == pc \in {"done", "crashed"}

Rendered == data = summary_data /\ data # None

FailedLine == [sec |-> "main", k |-> "Failed to retrieve miner data"]

\* C7: the summary document is written to miner_stats_<timestamp>.json if
\* and only if get_summary returned a non-empty result, after the renderer
\* was invoked on it; with an empty result the renderer is not invoked, no
\* file is written and the summary step prints only the "Failed" line.
C7_SavedIffSummary ==
  /\ Len(files) > 0 => Rendered
  /\ Ended =>
       /\ Truthy(summary_data) <=>
            files = <<[name |-> Filename(clock), content |-> JsonDumps(summary_data, 2)]>>
       /\ ~Truthy(summary_data) =>
            /\ ~Rendered /\ files = <<>>
            /\ stdout[Len(stdout)] = FailedLine

\* Supporting fact for C7: the statement holds of every run in which the
\* renderer does not raise.
SavedIffSummaryUnlessRaised == exc \/ C7_SavedIffSummary

\* C8: whatever the two HTTP calls come to, main reaches its end and the
\* process exits normally.
C8_NoFailureFatal == ~exc /\ pc # "crashed"

\* C9: a run sends exactly one GET to /api/v1/auth-check and then exactly
\* one GET to /api/v1/summary; the result of the auth check decides
\* nothing: the summary is requested after every auth outcome, and whether
\* it is rendered and saved follows from the summary result alone.
C9_AuthThenSummary ==
  /\ Len(requests) <= 2
  /\ \A i \in 1..Len(requests) :
       /\ requests[i].method = "GET"
       /\ requests[i].url = base_url \o (IF i = 1 THEN AuthCheckPath ELSE SummaryPath)
  /\ pc \in {"start", "check_auth"} <=> Len(requests) = 0
  /\ pc = "get_summary" <=> Len(requests) = 1
  /\ Ended =>
       /\ Len(requests) = 2
       /\ Rendered <=> Truthy(summary_data)
       /\ Len(files) = 1 <=> (Truthy(summary_data) /\ ~exc)
       /\ Len(files) <= 1

C9_Witness ==
  /\ pc = "done"
  /\ Len(requests) = 2
  /\ responses[1].kind = "http_error"
  /\ auth_status = EmptyDict
  /\ responses[2].kind = "ok"
  /\ Rendered
  /\ Len(files) = 1

====
